---------------------------- MODULE Spec2Model ----------------------------
(***************************************************************************)
(* TimeZ, the timezone converter: the URL-backed zone list and 12h flag,   *)
(* the live clock, the memoised header conversions and the 24-hour grid.   *)
(*                                                                         *)
(* Time is counted in minutes.  Minute 0 is 2024-03-29T00:00Z, so that the *)
(* modelled instants (from 2024-03-30T00:00Z on) cover an ordinary day and *)
(* the day Europe/Stockholm springs forward (2024-03-31T01:00Z).           *)
(*                                                                         *)
(* A text (a query parameter value) is a sequence of tokens: a token is a  *)
(* run of characters without a comma, or the comma itself.  Zone           *)
(* identifiers are strings.                                                *)
(***************************************************************************)
EXTENDS Integers, Sequences, FiniteSets, TLC

VARIABLES
    search,       \* location.search: the "zones" and "h12" query parameters
    zones,        \* useQueryState("zones"): the ordered zone list
    use12h,       \* useQueryState("h12")
    allZones,     \* useMemo(() => safeSupportedTimeZones(), [])
    nowUTC,       \* useLiveUTC(): the instant of the last tick, a DateTime in UTC
    conversions,  \* useMemo(..., [zones]): the header list, as last computed
    phase,        \* "loaded": first render done, effects pending;
                  \* "mounted": effects have run;
                  \* "unmounted": torn down
    timers,       \* the number of active setInterval timers of useLiveUTC
    srcZone       \* useQueryState("src") of the source-zone variant of the
                  \* app; "" in the live-clock app, which has no source zone

vars == <<search, zones, use12h, allZones, nowUTC, conversions, phase, timers, srcZone>>

-----------------------------------------------------------------------------
(* Bounds of the model *)

MaxZones == 3      \* addZone is not offered beyond this many entries
MaxUrlLen == 5     \* tokens in a zones parameter typed into the address bar
MaxSteps == 15     \* instants of the model: FirstInstant + k * Granule, k in 0..MaxSteps
Granule == 150     \* minutes between two instants of the model

MinutesPerDay == 24 * 60
FirstInstant == MinutesPerDay                 \* 2024-03-30T00:00Z
Instants == {FirstInstant + k * Granule : k \in 0..MaxSteps}

-----------------------------------------------------------------------------
(* The host platform: the zone database, Intl and luxon *)

\* The zones of the platform's database that the model knows.
ZoneDatabase == {"UTC", "Europe/Stockholm", "America/Phoenix", "Asia/Tokyo"}

\* Europe/Stockholm goes from UTC+1 to UTC+2 at 2024-03-31T01:00Z.
StockholmDST == 2 * MinutesPerDay + 60

\* IANAZone.isValidZone(z)
isValidZone(z) == z \in ZoneDatabase

\* zone.offset(ts): minutes east of UTC at instant ts
offset(z, ts) ==
    CASE z = "UTC" -> 0
      [] z = "Europe/Stockholm" -> IF ts < StockholmDST THEN 60 ELSE 120
      [] z = "America/Phoenix" -> -420
      [] z = "Asia/Tokyo" -> 540
      [] OTHER -> 0    \* no such zone: the DateTime is invalid, its fields NaN

\* Intl.supportedValuesOf("timeZone"): the platform may list an identifier
\* that luxon rejects.
IntlSupportedValues == <<"America/Phoenix", "Asia/Tokyo", "Etc/Unknown", "Europe/Stockholm", "UTC">>

\* The curated list used without Intl.supportedValuesOf, cut to the zones of
\* ZoneDatabase.
CuratedZones == <<"UTC", "Europe/Stockholm", "Asia/Tokyo">>

Range(s) == {s[i] : i \in 1..Len(s)}

\* Array.prototype.filter with IANAZone.isValidZone
FilterValid(arr) == SelectSeq(arr, isValidZone)

safeSupportedTimeZonesNoFilter(hasSupportedValuesOf) ==
    IF hasSupportedValuesOf THEN IntlSupportedValues ELSE CuratedZones

safeSupportedTimeZones(hasSupportedValuesOf) ==
    FilterValid(IF hasSupportedValuesOf THEN IntlSupportedValues ELSE CuratedZones)

DEFAULT_ZONES == <<"Europe/Stockholm", "America/Phoenix">>

-----------------------------------------------------------------------------
(* Query parameters: URLSearchParams.get / set / delete *)

Absent == [present |-> FALSE, text |-> <<>>]
Param(t) == [present |-> TRUE, text |-> t]

\* if (v) params.set(key, v); else params.delete(key);
SetOrDelete(v) == IF v # <<>> THEN Param(v) ELSE Absent

\* String.prototype.split(","): cur is the entry read so far
RECURSIVE split(_, _)
split(s, cur) ==
    IF s = <<>> THEN <<cur>>
    ELSE IF Head(s) = "," THEN <<cur>> \o split(Tail(s), "")
    ELSE split(Tail(s), cur \o Head(s))

\* Array.prototype.join(",")
RECURSIVE join(_)
join(arr) ==
    IF arr = <<>> THEN <<>>
    ELSE IF Len(arr) = 1 THEN <<arr[1]>>
    ELSE <<arr[1], ",">> \o join(Tail(arr))

\* encode of "zones": (arr) => arr.join(",")
encodeZones(arr) == join(arr)

decodeZonesNoFilter(p) ==
    LET parsed == IF p.present THEN split(p.text, "") ELSE DEFAULT_ZONES
    IN  IF parsed # <<>> THEN parsed ELSE DEFAULT_ZONES

\* decode of "zones"
decodeZones(p) ==
    LET parsed == FilterValid(IF p.present THEN split(p.text, "") ELSE DEFAULT_ZONES)
    IN  IF Len(parsed) # 0 THEN parsed ELSE DEFAULT_ZONES

\* encode of "h12": (v) => (v ? "1" : "")
encode12h(v) == IF v THEN <<"1">> ELSE <<>>

\* decode of "h12": (s) => s === "1"
decode12h(p) == p.present /\ p.text = <<"1">>

\* The effect of useQueryState, for both keys: each writes its own parameter
\* and keeps the other.
SyncedSearch(zs, h) == [zones |-> SetOrDelete(encodeZones(zs)), h12 |-> SetOrDelete(encode12h(h))]

-----------------------------------------------------------------------------
(* luxon DateTime: [ts |-> instant, zone |-> zone identifier] *)

DT(ts, z) == [ts |-> ts, zone |-> z]

\* dt.setZone(z, { keepLocalTime: false })
setZone(dt, z) == DT(dt.ts, z)

\* the wall clock of dt, in minutes since local 2024-03-29T00:00
localTS(dt) == dt.ts + offset(dt.zone, dt.ts)

\* calendar day, hour and minute of the wall clock
dayOf(dt) == localTS(dt) \div MinutesPerDay
hourOf(dt) == (localTS(dt) % MinutesPerDay) \div 60
minuteOf(dt) == localTS(dt) % 60

Min(a, b) == IF a < b THEN a ELSE b

\* luxon fixOffset(localTS, o, tz): the instant at which zone tz reads wall
\* clock lts, guessing offset o first
fixOffset(lts, o, z) ==
    LET guess1 == lts - o
        o2 == offset(z, guess1)
        guess2 == guess1 - (o2 - o)
        o3 == offset(z, guess2)
    IN  IF o = o2 THEN guess1
        ELSE IF o2 = o3 THEN guess2
        ELSE lts - Min(o2, o3)

\* dt.startOf("day")
startOfDay(dt) ==
    LET lts == (localTS(dt) \div MinutesPerDay) * MinutesPerDay
    IN  DT(fixOffset(lts, offset(dt.zone, dt.ts), dt.zone), dt.zone)

\* dt.plus({ hour: h }): hours are added to the instant
plusHours(dt, h) == DT(dt.ts + h * 60, dt.zone)

\* dt.plus({ days: d }): days are added to the wall clock
plusDays(dt, d) ==
    DT(fixOffset(localTS(dt) + d * MinutesPerDay, offset(dt.zone, dt.ts), dt.zone), dt.zone)

\* luxon dayDiff(earlier, later): difference of the two calendar dates
dayDiff(earlier, later) == dayOf(later) - dayOf(earlier)

\* Math.trunc(n / d) for d > 0: rounds toward zero
trunc(n, d) == IF n >= 0 THEN n \div d ELSE 0 - ((0 - n) \div d)

\* Math.trunc(a.diff(b, "days").days): luxon counts the whole days from the
\* earlier to the later DateTime on the earlier one's calendar, backtracking
\* when that overshoots, and adds the rest as a fraction of the next day.
truncDiffDays(a, b) ==
    LET otherIsLater == b.ts > a.ts
        earlier == IF otherIsLater THEN a ELSE b
        later == IF otherIsLater THEN b ELSE a
        d0 == dayDiff(earlier, later)
        hw0 == plusDays(earlier, d0)
        c1 == plusDays(earlier, d0 - 1)
        c2 == plusDays(earlier, d0 - 2)
        days == IF hw0.ts > later.ts THEN (IF c1.ts > later.ts THEN d0 - 2 ELSE d0 - 1) ELSE d0
        cursor == IF hw0.ts > later.ts THEN (IF c1.ts > later.ts THEN c2 ELSE c1) ELSE hw0
        hw1 == IF hw0.ts > later.ts THEN (IF c1.ts > later.ts THEN c1 ELSE hw0) ELSE hw0
        highWater == IF hw1.ts < later.ts THEN plusDays(cursor, 1) ELSE hw1
        remaining == later.ts - cursor.ts
        den == highWater.ts - cursor.ts
        whole == IF den # 0 THEN trunc(days * den + remaining, den) ELSE days
    IN  IF otherIsLater THEN 0 - whole ELSE whole

-----------------------------------------------------------------------------
(* TimeZ: derived values *)

convertAgainstFirstZone(zs, now) ==
    [i \in 1..Len(zs) |->
        LET inZone == setZone(now, zs[i])
        IN  [zone |-> zs[i],
             dt |-> inZone,
             dayDelta |-> dayOf(inZone) - dayOf(setZone(now, zs[1]))]]

\* The header list: zones.map((z) => ({ zone, dt, dayDelta }))
convert(zs, now) ==
    [i \in 1..Len(zs) |->
        LET inZone == setZone(now, zs[i])
        IN  [zone |-> zs[i],
             dt |-> inZone,
             dayDelta |-> truncDiffDays(startOfDay(inZone), startOfDay(now))]]

\* [...new Set(arr)]: the first occurrence of every entry, in order
RECURSIVE unique(_)
unique(arr) ==
    IF arr = <<>> THEN <<>>
    ELSE LET front == unique(SubSeq(arr, 1, Len(arr) - 1))
             last == arr[Len(arr)]
         IN  IF last \in Range(front) THEN front ELSE Append(front, last)

\* zones.indexOf(z), counted from 1; 0 when z is absent
indexOf(arr, z) ==
    IF z \in Range(arr) THEN CHOOSE i \in 1..Len(arr) : arr[i] = z /\ \A k \in 1..(i - 1) : arr[k] # z
    ELSE 0

\* [copy[i], copy[j]] = [copy[j], copy[i]]
swap(arr, i, j) == [arr EXCEPT ![i] = arr[j], ![j] = arr[i]]

-----------------------------------------------------------------------------
(* TimezoneTable: the 24-hour grid *)

GridRows == 24

baseStart(now, zs) == startOfDay(setZone(now, zs[1]))

\* Array.from({ length: 24 }, (_, hour) => baseStart.plus({ hour })); hours[i + 1] is row i
hours(now, zs) == [i \in 1..GridRows |-> plusHours(baseStart(now, zs), i - 1)]

currentHourUTC(now, zs) == hourOf(now)

currentHour(now, zs) == hourOf(setZone(now, zs[1]))

TimezoneTableNightByRow(now, zs) ==
    IF Len(zs) = 0 THEN <<>>
    ELSE [i \in 1..GridRows |->
            [j \in 1..Len(zs) |->
                LET local == setZone(hours(now, zs)[i], zs[j])
                IN  [zone |-> zs[j],
                     hour |-> hourOf(local),
                     minute |-> minuteOf(local),
                     isCurrent |-> (i - 1 = currentHour(now, zs)),
                     isNight |-> (i - 1 >= 22 \/ i - 1 < 6)]]]

\* The rendered table: no row at all for an empty list, else one row per
\* hour and one cell per zone.
TimezoneTable(now, zs) ==
    IF Len(zs) = 0 THEN <<>>
    ELSE [i \in 1..GridRows |->
            [j \in 1..Len(zs) |->
                LET local == setZone(hours(now, zs)[i], zs[j])
                IN  [zone |-> zs[j],
                     hour |-> hourOf(local),
                     minute |-> minuteOf(local),
                     isCurrent |-> (i - 1 = currentHour(now, zs)),
                     isNight |-> (hourOf(local) >= 22 \/ hourOf(local) < 6)]]]

-----------------------------------------------------------------------------
(* What can be typed into the address bar *)

UrlTokens == {"UTC", "Asia/Tokyo", "Mars/Phobos", ","}

RECURSIVE TextsUpTo(_)
TextsUpTo(n) ==
    IF n = 0 THEN {<<>>}
    ELSE LET shorter == TextsUpTo(n - 1)
         IN  shorter \cup {Append(t, k) : t \in shorter, k \in UrlTokens}

ZonesInputs == {Absent} \cup {Param(t) : t \in TextsUpTo(MaxUrlLen)}
H12Inputs == {Absent, Param(<<"1">>), Param(<<"true">>)}

-----------------------------------------------------------------------------
(* The application *)

\* First render of TimeZ on a page opened at some URL, at the first instant
\* of the model: the useState initialisers decode the query string, the memos
\* are computed.
Init ==
    \E u \in ZonesInputs, h \in H12Inputs, cap \in BOOLEAN, t \in {FirstInstant} :
        /\ search = [zones |-> u, h12 |-> h]
        /\ zones = decodeZones(u)
        /\ use12h = decode12h(h)
        /\ allZones = safeSupportedTimeZones(cap)
        /\ nowUTC = DT(t, "UTC")
        /\ conversions = convert(decodeZones(u), DT(t, "UTC"))
        /\ phase = "loaded"
        /\ timers = 0
        /\ srcZone = ""

\* The effects of the first commit: both useQueryState effects write the
\* URL, useLiveUTC starts its interval.
mountEffects ==
    /\ phase = "loaded"
    /\ search' = SyncedSearch(zones, use12h)
    /\ phase' = "mounted"
    /\ timers' = timers + 1
    /\ UNCHANGED <<zones, use12h, allZones, nowUTC, conversions, srcZone>>

\* setInterval callback: setNowUTC(DateTime.utc()).  The re-render leaves the
\* memoised conversions alone, zones being the same array.
\* The callback fires for as long as an interval is active.
tick ==
    /\ timers > 0
    /\ \E t \in Instants :
        /\ t > nowUTC.ts
        /\ nowUTC' = DT(t, "UTC")
    /\ UNCHANGED <<search, zones, use12h, allZones, conversions, phase, timers, srcZone>>

\* setZones(next): re-render with the new array, recompute the conversions
\* memo, run the "zones" effect.
setZones(next) ==
    /\ zones' = next
    /\ conversions' = convert(next, nowUTC)
    /\ search' = SyncedSearch(next, use12h)
    /\ UNCHANGED <<use12h, allZones, nowUTC, phase, timers, srcZone>>

addZone(z) ==
    /\ phase = "mounted"
    /\ Len(zones) < MaxZones
    /\ setZones(unique(Append(zones, z)))

removeZone(z) ==
    /\ phase = "mounted"
    /\ setZones(SelectSeq(zones, LAMBDA x : x # z))

moveZone(z, dir) ==
    /\ phase = "mounted"
    /\ LET i == indexOf(zones, z)
           j == i + dir
       IN  IF i < 1 \/ j < 1 \/ j > Len(zones)
             THEN UNCHANGED vars
             ELSE setZones(swap(zones, i, j))

\* the 12-hour checkbox: setUse12h(e.target.checked)
setUse12h ==
    /\ phase = "mounted"
    /\ use12h' = ~use12h
    /\ search' = SyncedSearch(zones, ~use12h)
    /\ UNCHANGED <<zones, allZones, nowUTC, conversions, phase, timers, srcZone>>

unmountNoClear ==
    /\ phase = "mounted"
    /\ phase' = "unmounted"
    /\ UNCHANGED <<search, zones, use12h, allZones, nowUTC, conversions, timers, srcZone>>

\* Teardown: the cleanup of useLiveUTC clears the interval.
unmount ==
    /\ phase = "mounted"
    /\ phase' = "unmounted"
    /\ timers' = timers - 1
    /\ UNCHANGED <<search, zones, use12h, allZones, nowUTC, conversions, srcZone>>

\* The page is opened again at the URL it left behind (a reload, a shared
\* link): the old page and its timers are gone, first render from
\* location.search.
reload ==
    /\ phase \in {"mounted", "unmounted"}
    /\ zones' = decodeZones(search.zones)
    /\ use12h' = decode12h(search.h12)
    /\ conversions' = convert(decodeZones(search.zones), nowUTC)
    /\ phase' = "loaded"
    /\ timers' = 0
    /\ UNCHANGED <<search, allZones, nowUTC, srcZone>>

Next ==
    \/ mountEffects
    \/ tick
    \/ \E z \in Range(SelectSeq(allZones, LAMBDA x : x \notin Range(zones))) : addZone(z)
    \/ \E z \in Range(zones) : removeZone(z)
    \/ \E z \in Range(zones), dir \in {-1, 1} : moveZone(z, dir)
    \/ setUse12h
    \/ unmount
    \/ reload

Spec == Init /\ [][Next]_vars

-----------------------------------------------------------------------------
(* The grid as a function of its props.  TimezoneTable renders from the     *)
(* props (now, zones) alone, so its properties are checked over every zone *)
(* list of up to MaxZones database zones (duplicates and the empty list    *)
(* included, as the application can reach them) and the instants of two    *)
(* days, with the rows reordered by moveZone.                              *)

GridSteps == 19    \* instants of the grid check: FirstInstant + k * Granule, k in 0..GridSteps
GridInstants == {FirstInstant + k * Granule : k \in 0..GridSteps}

RECURSIVE ZoneListsUpTo(_)
ZoneListsUpTo(n) ==
    IF n = 0 THEN {<<>>}
    ELSE LET shorter == ZoneListsUpTo(n - 1)
         IN  shorter \cup {Append(zs, z) : zs \in shorter, z \in ZoneDatabase}

\* TimeZ mounted with some zone list, rendered at some instant.
GridInit ==
    \E zs \in ZoneListsUpTo(MaxZones), t \in GridInstants :
        /\ search = SyncedSearch(zs, FALSE)
        /\ zones = zs
        /\ use12h = FALSE
        /\ allZones = safeSupportedTimeZones(TRUE)
        /\ nowUTC = DT(t, "UTC")
        /\ conversions = convert(zs, DT(t, "UTC"))
        /\ phase = "mounted"
        /\ timers = 1
        /\ srcZone = ""

GridNext == \E z \in Range(zones), dir \in {-1, 1} : moveZone(z, dir)

SpecGrid == GridInit /\ [][GridNext]_vars

-----------------------------------------------------------------------------
(* The source-zone variant of TimeZ: a source zone and a date-time field   *)
(* instead of the live clock.  It has no interval (timers stays 0); nowUTC *)
(* holds the instant of the first render, whose wall clock in the          *)
(* browser's zone is the default of the date-time field.  The field is not *)
(* edited in this model and its "t" parameter is not tracked.              *)

\* Intl.DateTimeFormat().resolvedOptions().timeZone
srcLocalZone == "Europe/Stockholm"

\* DEFAULT_ZONES of the variant, cut to the zones of ZoneDatabase
srcDEFAULT_ZONES == <<srcLocalZone, "UTC", "Asia/Tokyo">>

\* decode of "zones" in the variant
srcDecodeZones(p) ==
    LET parsed == FilterValid(IF p.present THEN split(p.text, "") ELSE srcDEFAULT_ZONES)
    IN  IF Len(parsed) # 0 THEN parsed ELSE srcDEFAULT_ZONES

\* decode of "src": (s) => (s && isValidZone(s) ? s : (zones[0] || DEFAULT_ZONES[0]))
decodeSrc(p, zs) ==
    IF p.present /\ Len(p.text) = 1 /\ isValidZone(p.text[1]) THEN p.text[1]
    ELSE IF Len(zs) > 0 THEN zs[1]
    ELSE srcDEFAULT_ZONES[1]

\* The effects of useQueryState for "zones", "h12" and "src".
srcSyncedSearch(zs, h, src) ==
    [zones |-> SetOrDelete(encodeZones(zs)),
     h12 |-> SetOrDelete(encode12h(h)),
     src |-> SetOrDelete(<<src>>)]

\* srcWall: DateTime.fromObject(the fields of rawLocal, { zone: srcZone });
\* rawLocal is the wall clock the browser's zone read at the first render.
srcWall(src, now) ==
    DT(fixOffset(localTS(setZone(now, srcLocalZone)), offset(src, now.ts), src), src)

\* conversions of the variant: the anchor is srcWall
srcConvert(zs, anchor) ==
    [i \in 1..Len(zs) |->
        LET inZone == setZone(anchor, zs[i])
        IN  [zone |-> zs[i],
             dt |-> inZone,
             dayDelta |-> truncDiffDays(startOfDay(inZone), startOfDay(anchor))]]

keepSrcPresentAppend(zs, src) == IF src \in Range(zs) THEN zs ELSE Append(zs, src)

\* if (!zones.includes(srcZone)) setZones([srcZone, ...zones]);
keepSrcPresent(zs, src) == IF src \in Range(zs) THEN zs ELSE <<src>> \o zs

SrcInputs == {Absent, Param(<<"Asia/Tokyo">>), Param(<<"America/Phoenix">>), Param(<<"Mars/Phobos">>)}

\* First render of the variant on a page opened at some URL.
srcInit ==
    \E u \in ZonesInputs, s \in SrcInputs, cap \in BOOLEAN :
        /\ search = [zones |-> u, h12 |-> Absent, src |-> s]
        /\ zones = srcDecodeZones(u)
        /\ use12h = FALSE
        /\ srcZone = decodeSrc(s, srcDecodeZones(u))
        /\ allZones = safeSupportedTimeZones(cap)
        /\ nowUTC = DT(FirstInstant, "UTC")
        /\ conversions = srcConvert(srcDecodeZones(u),
                                    srcWall(decodeSrc(s, srcDecodeZones(u)), DT(FirstInstant, "UTC")))
        /\ phase = "loaded"
        /\ timers = 0

\* A render of the variant with a new zone list and source zone: the memos
\* are recomputed and the useQueryState effects write the URL.
srcRender(nextZones, nextSrc) ==
    /\ zones' = nextZones
    /\ srcZone' = nextSrc
    /\ conversions' = srcConvert(nextZones, srcWall(nextSrc, nowUTC))
    /\ search' = srcSyncedSearch(nextZones, use12h, nextSrc)
    /\ UNCHANGED <<use12h, allZones, nowUTC, timers>>

\* The effects of the first commit: the useQueryState effects, then the
\* effect that keeps srcZone present, whose setZones renders again.
srcMountEffects ==
    /\ phase = "loaded"
    /\ phase' = "mounted"
    /\ srcRender(keepSrcPresent(zones, srcZone), srcZone)

\* The source selector: setSrcZone(z); the effect with dependency [srcZone]
\* runs when the value changed.
setSrcZone(z) ==
    /\ phase = "mounted"
    /\ UNCHANGED phase
    /\ srcRender(IF z # srcZone THEN keepSrcPresent(zones, z) ELSE zones, z)

srcAddZone(z) ==
    /\ phase = "mounted"
    /\ UNCHANGED phase
    /\ srcRender(unique(Append(zones, z)), srcZone)

srcRemoveZone(z) ==
    /\ phase = "mounted"
    /\ UNCHANGED phase
    /\ srcRender(SelectSeq(zones, LAMBDA x : x # z), srcZone)

srcMoveZone(z, dir) ==
    /\ phase = "mounted"
    /\ LET i == indexOf(zones, z)
           j == i + dir
       IN  IF i < 1 \/ j < 1 \/ j > Len(zones)
             THEN UNCHANGED vars
             ELSE UNCHANGED phase /\ srcRender(swap(zones, i, j), srcZone)

\* The Remove button is rendered only for rows with zone !== srcZone; the
\* add selector offers the zones not yet listed, the source selector all.
SrcNext ==
    \/ srcMountEffects
    \/ \E z \in Range(allZones) : setSrcZone(z)
    \/ \E z \in Range(SelectSeq(allZones, LAMBDA x : x \notin Range(zones))) : srcAddZone(z)
    \/ \E z \in Range(zones) \ {srcZone} : srcRemoveZone(z)
    \/ \E z \in Range(zones), dir \in {-1, 1} : srcMoveZone(z, dir)

SpecSrc == srcInit /\ [][SrcNext]_vars

-----------------------------------------------------------------------------
(* Properties *)

\* The wall-clock date of the anchor (UTC) at the instant a header row was
\* computed for.
AnchorAt(row) == DT(row.dt.ts, "UTC")

\* C1: the dayDelta of every row of the header list is the signed number of
\* calendar days from the anchor's local date to the target zone's local
\* date at the row's instant.
C1_DayDeltaIsCalendarDifference ==
    \A i \in 1..Len(conversions) :
        conversions[i].dayDelta = dayOf(conversions[i].dt) - dayOf(AnchorAt(conversions[i]))

\* C2: the zone list is never empty.
C2_ZoneListNeverEmpty == Len(zones) >= 1

\* C3: once the effects have run, every row of the header list was computed
\* from the current nowUTC.
C3_ConversionsFromCurrentInstant ==
    phase = "mounted" => \A i \in 1..Len(conversions) : conversions[i].dt.ts = nowUTC.ts

\* C4: no zone identifier occurs twice in the zone list.
C4_NoDuplicateZones ==
    \A i, j \in 1..Len(zones) : i # j => zones[i] # zones[j]

\* C5: addZone(z) leaves the list as it is when z is present, and appends z
\* to the unchanged list when z is absent.
C5_AddZoneSetSemantics ==
    [][\A z \in Range(allZones) :
          addZone(z) => zones' = IF z \in Range(zones) THEN zones ELSE Append(zones, z)]_vars

\* The positions of a parameter text that hold a whole entry naming a zone
\* of the database: a database name between commas or the ends of the text.
ValidEntryPositions(text) ==
    {i \in 1..Len(text) :
        /\ text[i] \in ZoneDatabase
        /\ i = 1 \/ text[i - 1] = ","
        /\ i = Len(text) \/ text[i + 1] = ","}

\* The k-th smallest member of a set of positions.
KthPosition(ps, k) == CHOOSE p \in ps : Cardinality({q \in ps : q <= p}) = k

\* C6: right after a load, the zone list is made of exactly the valid
\* entries of the zones parameter, in the order of the parameter; it is the
\* default list when the parameter is missing or has no valid entry.
C6_DecodeDropsInvalidKeepsOrder ==
    phase = "loaded" =>
        LET p == search.zones
            ps == ValidEntryPositions(p.text)
        IN  IF p.present /\ ps # {}
              THEN /\ Len(zones) = Cardinality(ps)
                   /\ \A k \in 1..Len(zones) : zones[k] = p.text[KthPosition(ps, k)]
              ELSE zones = <<"Europe/Stockholm", "America/Phoenix">>

\* C6 witness: a load whose parameter has an invalid entry between valid
\* ones; the invalid entry is gone, the valid ones are kept in order.
C6_Witness ==
    /\ phase = "loaded"
    /\ search.zones = Param(<<"Asia/Tokyo", ",", "Mars/Phobos", ",", "UTC">>)
    /\ zones = <<"Asia/Tokyo", "UTC">>

\* C7: once the effects have run, decoding the query string gives back the
\* zone list and the 12h flag.
C7_UrlRoundTrip ==
    phase = "mounted" =>
        /\ decodeZones(search.zones) = zones
        /\ decode12h(search.h12) = use12h

\* C8: every identifier of the zone list, and every zone a header row was
\* converted for, is a zone of the platform's database.
C8_AllZonesValid ==
    /\ \A i \in 1..Len(zones) : zones[i] \in ZoneDatabase
    /\ \A i \in 1..Len(conversions) : conversions[i].zone \in ZoneDatabase

\* C8 witness: the platform listed an identifier luxon rejects, the list was
\* loaded from a URL and a zone was added from the selector.
C8_Witness ==
    /\ phase = "mounted"
    /\ Len(allZones) < Len(IntlSupportedValues)
    /\ "America/Phoenix" \in Range(allZones)
    /\ zones = <<"UTC", "Asia/Tokyo", "America/Phoenix">>
    /\ Len(conversions) = Len(zones)

\* C9: row i of the grid is the instant at which the reference zone reads
\* i:00 on its calendar day containing now.
C9_RowIsWallClockHour ==
    Len(zones) >= 1 =>
        \A i \in 1..GridRows :
            LET row == hours(nowUTC, zones)[i]
            IN  /\ hourOf(row) = i - 1
                /\ minuteOf(row) = 0
                /\ dayOf(row) = dayOf(setZone(nowUTC, zones[1]))
                /\ TimezoneTable(nowUTC, zones)[i][1].hour = i - 1

\* C10: the grid has 24 rows, each with one cell per zone in list order.
C10_GridShape ==
    LET table == TimezoneTable(nowUTC, zones)
    IN  /\ Len(table) = GridRows
        /\ \A i \in 1..Len(table) :
              /\ Len(table[i]) = Len(zones)
              /\ \A j \in 1..Len(zones) : table[i][j].zone = zones[j]

\* The rows of the rendered grid that have a cell flagged as current.
FlaggedRows ==
    LET table == TimezoneTable(nowUTC, zones)
    IN  {i \in 1..Len(table) : \E j \in 1..Len(table[i]) : table[i][j].isCurrent}

\* The wall-clock hour that zone z reads at instant ts.
WallHour(z, ts) == ((ts + offset(z, ts)) % MinutesPerDay) \div 60

\* C11: with a reference zone, exactly one row is flagged as current, the
\* one whose index is the reference zone's wall-clock hour at nowUTC, and it
\* is flagged in every column; without a reference zone no row is flagged.
C11_ExactlyOneCurrentRow ==
    IF Len(zones) >= 1
      THEN /\ FlaggedRows = {WallHour(zones[1], nowUTC.ts) + 1}
           /\ \A i \in FlaggedRows :
                \A j \in 1..Len(zones) : TimezoneTable(nowUTC, zones)[i][j].isCurrent
      ELSE FlaggedRows = {}

\* C11 witness: a grid of several columns whose flagged row is not the row
\* of the UTC hour.
C11_Witness ==
    /\ phase = "mounted"
    /\ Len(zones) >= 2
    /\ zones[1] # zones[2]
    /\ \E i \in FlaggedRows :
          /\ i - 1 # WallHour("UTC", nowUTC.ts)
          /\ TimezoneTable(nowUTC, zones)[i][2].isCurrent

\* C12: a cell is night exactly when its own zone reads an hour in 22..23 or
\* 0..5 at the instant of its row.
C12_NightByOwnLocalHour ==
    LET table == TimezoneTable(nowUTC, zones)
        midnight == baseStart(nowUTC, zones).ts
    IN  \A i \in 1..Len(table) :
          \A j \in 1..Len(table[i]) :
            table[i][j].isNight <=>
                WallHour(zones[j], midnight + 60 * (i - 1)) \in ({22, 23} \cup 0..5)

\* C12 witness: a row with a night cell and a day cell.
C12_Witness ==
    LET table == TimezoneTable(nowUTC, zones)
    IN  \E i \in 1..Len(table) :
          \E j, k \in 1..Len(table[i]) : table[i][j].isNight /\ ~table[i][k].isNight

\* C13: the header row of the anchor zone (UTC, the zone of nowUTC) has
\* dayDelta 0.
C13_AnchorDayDeltaZero ==
    \A i \in 1..Len(conversions) :
        conversions[i].zone = "UTC" => conversions[i].dayDelta = 0

\* C13 witness: a header list with the anchor's row, computed at an instant
\* at which another row is on a different calendar date.
C13_Witness ==
    \E i, k \in 1..Len(conversions) :
        /\ conversions[i].zone = "UTC"
        /\ dayOf(conversions[k].dt) # dayOf(conversions[i].dt)

\* C14: nowUTC changes only by a tick of the one interval of the mounted
\* component, which replaces it with a later UTC instant; while mounted
\* exactly one interval is active, and teardown leaves none, so that nowUTC
\* never changes once unmounted.
C14_TimerStoppedAtTeardown ==
    [][/\ nowUTC' # nowUTC =>
            /\ phase = "mounted"
            /\ timers = 1
            /\ nowUTC'.zone = "UTC"
            /\ nowUTC'.ts > nowUTC.ts
       /\ phase' = "mounted" => timers' = 1
       /\ phase' = "unmounted" => timers' = 0 /\ (phase = "unmounted" => nowUTC' = nowUTC)]_vars

\* C14 witness: the clock ticked while mounted, then the component was torn
\* down and its interval cleared.
C14_Witness ==
    /\ phase = "unmounted"
    /\ timers = 0
    /\ nowUTC.ts > FirstInstant

\* C15: the row flagged as current is the row whose hour, starting at the
\* row's instant, contains nowUTC.
C15_CurrentRowContainsNow ==
    Len(zones) >= 1 =>
        LET table == TimezoneTable(nowUTC, zones)
            rows == hours(nowUTC, zones)
        IN  \A i \in 1..Len(table) :
              table[i][1].isCurrent <=>
                  (rows[i].ts <= nowUTC.ts /\ nowUTC.ts < rows[i].ts + 60)

\* The number of entries of a list that name zone x.
Occurrences(zs, x) == Cardinality({i \in 1..Len(zs) : zs[i] = x})

\* C17: moveZone(z, dir) leaves the list alone when z is the first entry
\* moved up or the last entry moved down (or is not listed); otherwise it
\* swaps an entry z with its neighbour in direction dir, every other entry
\* keeping its position; length and collection of zones are preserved.
C17_MoveZoneSwapsNeighbours ==
    [][\A z \in ZoneDatabase, dir \in {-1, 1} :
          moveZone(z, dir) =>
            /\ Len(zones') = Len(zones)
            /\ \A x \in ZoneDatabase : Occurrences(zones', x) = Occurrences(zones, x)
            /\ IF \/ z \notin Range(zones)
                  \/ dir = -1 /\ zones[1] = z
                  \/ dir = 1 /\ zones[Len(zones)] = z
                 THEN zones' = zones
                 ELSE \E i \in 1..Len(zones) :
                        /\ zones[i] = z
                        /\ zones'[i + dir] = z
                        /\ zones'[i] = zones[i + dir]
                        /\ \A k \in 1..Len(zones) :
                              k \notin {i, i + dir} => zones'[k] = zones[k]]_vars

\* C16: in the source-zone variant, whenever the effects have run the source
\* zone is a member of the zone list; a source zone that was not in the list
\* is inserted at index 0, the other entries keeping their order.
C16_SrcZoneKeptPresent ==
    [][phase' = "mounted" =>
          /\ srcZone' \in Range(zones')
          /\ srcZone' \notin Range(zones) => zones' = <<srcZone'>> \o zones]_vars

\* C16 witness: a source zone that neither the URL's list nor the default
\* list names heads a list of several zones.
C16_Witness ==
    /\ phase = "mounted"
    /\ srcZone = "America/Phoenix"
    /\ Len(zones) >= 3
    /\ zones[1] = srcZone
    /\ search.src = Param(<<srcZone>>)

=============================================================================
